---- MODULE Spec2Model ----
(***************************************************************************)
(* Model of the analytics dashboard client.                                *)
(*                                                                         *)
(*   frontend/lib/api.ts        the API client (buildQueryString, the      *)
(*                              fetch* operations, fetchAllFastKPIs) and   *)
(*                              the AuthGuard component                    *)
(*   frontend/app/layout.tsx    the Home component: filter state, the      *)
(*                              fetchData effect, handleReset, the render  *)
(*                              branches                                   *)
(*   frontend/components/FilterControls.tsx   the filter inputs            *)
(*                                                                         *)
(* A query string is modelled as the ordered list of <<key, value>> pairs  *)
(* that URLSearchParams serialises; percent-encoding is not modelled.      *)
(* A successful response is modelled by the pair (endpoint path, query) it *)
(* answers: the server's data is read-only and does not change.            *)
(***************************************************************************)
EXTENDS Integers, Sequences, FiniteSets, TLC

VARIABLES
    startDate,          \* Home: useState("2025-12-01")
    endDate,            \* Home: useState("2025-12-31")
    productContext,     \* Home: useState<ProductContext>("pool")
    userType,           \* Home: useState<UserType>("all")
    data,               \* Home: useState<DashboardData | null>(null)
    clustering,         \* Home: useState<any>(null)
    sentiment,          \* Home: useState<any>(null)
    loading,            \* Home: useState(true)
    clusteringLoading,  \* Home: useState(true)
    sentimentLoading,   \* Home: useState(true)
    error,              \* Home: useState<string | null>(null)
    mounted,            \* whether Home's effect has run for the first time
    cycles,             \* the invocations of fetchData, oldest first
    serverUp,           \* FALSE once the server has stopped answering
    isLoading,          \* useAuth0().isLoading
    isAuthenticated,    \* useAuth0().isAuthenticated
    user,               \* useAuth0().user
    rendered,           \* what AuthGuard returned at its last render
    loginCalls,         \* number of loginWithRedirect() calls so far
    logoutCalls,        \* number of logout() calls so far
    authToken,          \* api.ts: let authToken: string | null = null
    opName,             \* the fetch operation a caller of the API client uses
    opFilters,          \* the AnalyticsFilters value that caller passes
    calls,              \* the calls of that operation so far, oldest first
    served,             \* the records the server returned to the dashboard
    screen,             \* what Home's last branch rendered from them
    sessionCounts,      \* engine input: sessions in range per user
    classifierOutput,   \* engine input: the classifier's answer per text
    summary             \* engine output: the record of the last computation

homeVars == <<startDate, endDate, productContext, userType, data, clustering,
              sentiment, loading, clusteringLoading, sentimentLoading, error,
              mounted, cycles, serverUp>>
authVars == <<isLoading, isAuthenticated, user, rendered, loginCalls, logoutCalls>>
apiVars == <<authToken, opName, opFilters, calls>>
renderVars == <<served, screen>>
engineVars == <<sessionCounts, classifierOutput, summary>>
otherVars == <<apiVars, renderVars, engineVars>>
vars == <<homeVars, authVars, otherVars>>

-----------------------------------------------------------------------------
(* Bounds of the exploration *)

\* fetchData invocations explored in one behaviour (the mount plus the
\* filter changes that follow it)
MaxCycles == 2

\* fetchData invocations when the Reset Filters button may start one more
MaxResetCycles == MaxCycles + 1

\* calls of loginWithRedirect / logout counted in one behaviour
MaxCalls == 2

\* calls of a fetch operation made by one caller of the API client
MaxApiCalls == 2

\* texts handed to the classifier for one request
MaxTexts == 3

-----------------------------------------------------------------------------
(* Values *)

\* JavaScript null
Null == [kind |-> "null"]

\* An optional string field is a sequence: << >> when the field is absent
\* (undefined), <<s>> when it holds the string s
Undefined == << >>

ProductContexts == {"pool", "landscape"}

\* the User Type select with one more option than the enumeration has
UserTypes_ExtraOption == {"all", "internal", "external", "admin"}

UserTypes == {"all", "internal", "external"}

\* the values an <input type="date"> can hand to onChange: "" when the
\* field is cleared, otherwise a yyyy-mm-dd date
DateInputs == {"", "2025-11-30", "2025-12-31"}

\* the module state of api.ts as loaded, with no caller at work
ApiIdle ==
    /\ authToken = << >>
    /\ opName = "none"
    /\ opFilters = Null
    /\ calls = << >>

\* nothing has been served to the dashboard's last branch or rendered by it
RenderIdle ==
    /\ served = Null
    /\ screen = Null

\* the analytics engine has computed nothing
EngineIdle ==
    /\ sessionCounts = << >>
    /\ classifierOutput = << >>
    /\ summary = Null

-----------------------------------------------------------------------------
(* The API client: frontend/lib/api.ts *)

\* the endpoint paths of the ten fetch operations that fetchAllFastKPIs
\* starts, in the order of the array it hands to Promise.all
FastKPIs ==
    << "/analytics/session-metrics",
       "/analytics/volume-trends",
       "/analytics/user-engagement",
       "/analytics/user-retention",
       "/analytics/query-categories",
       "/analytics/returning-user-behavior",
       "/analytics/user-segmentation",
       "/analytics/time-patterns",
       "/analytics/conversation-length",
       "/analytics/platform-analytics" >>

\* the fields of the record fetchAllFastKPIs returns, in the order of the
\* destructuring pattern that receives the Promise.all array
FastFields ==
    << "sessionMetrics",
       "volumeTrends",
       "userEngagement",
       "userRetention",
       "queryCategories",
       "returningUserBehavior",
       "userSegmentation",
       "timePatterns",
       "conversationLength",
       "platformAnalytics" >>

ClusteringPath == "/analytics/pain-point-clustering"

SentimentPath == "/analytics/sentiment-analysis"

FastIdx == 1..Len(FastKPIs)

FastPaths == {FastKPIs[i] : i \in FastIdx}

Endpoints == FastPaths \cup {ClusteringPath, SentimentPath}

\* the name each fetch operation puts in its "Failed to fetch ..." message
EndpointLabel(path) ==
    CASE path = "/analytics/session-metrics"         -> "session metrics"
      [] path = "/analytics/pain-point-clustering"   -> "pain point clustering"
      [] path = "/analytics/volume-trends"           -> "volume trends"
      [] path = "/analytics/user-engagement"         -> "user engagement"
      [] path = "/analytics/user-retention"          -> "user retention"
      [] path = "/analytics/query-categories"        -> "query categories"
      [] path = "/analytics/returning-user-behavior" -> "returning user behavior"
      [] path = "/analytics/user-segmentation"       -> "user segmentation"
      [] path = "/analytics/time-patterns"           -> "time patterns"
      [] path = "/analytics/conversation-length"     -> "conversation length"
      [] path = "/analytics/platform-analytics"      -> "platform analytics"
      [] path = "/analytics/sentiment-analysis"      -> "sentiment analysis"

\* how one fetch operation can end: the response is ok and parses; the
\* response is not ok; fetch() or response.json() rejects with an error of
\* its own
Outcomes == {"ok", "http_error", "network_error"}

\* if (v) on an optional string field: absent and "" are falsy
Truthy(v) == v # Undefined /\ v # <<"">>

\* buildQueryString with product_context left at "pool" whatever the filter
buildQueryString_FixedProduct(filters) ==
    << <<"start_date", filters.startDate>>,
       <<"end_date", filters.endDate>>,
       <<"product_context", "pool">>,
       <<"user_type", filters.userType>> >>

\* buildQueryString appending environment whenever the field is present,
\* the empty string included
buildQueryString_AppendsEmptyEnvironment(filters) ==
    LET params == << <<"start_date", filters.startDate>>,
                     <<"end_date", filters.endDate>>,
                     <<"product_context", filters.productContext>>,
                     <<"user_type", filters.userType>> >>
        withEnv == IF filters.environment # Undefined
                   THEN Append(params, <<"environment", filters.environment[1]>>)
                   ELSE params
    IN  IF Truthy(filters.userId)
        THEN Append(withEnv, <<"user_id", filters.userId[1]>>)
        ELSE withEnv

\* new URLSearchParams({...}) followed by the two conditional appends
buildQueryString(filters) ==
    LET params == << <<"start_date", filters.startDate>>,
                     <<"end_date", filters.endDate>>,
                     <<"product_context", filters.productContext>>,
                     <<"user_type", filters.userType>> >>
        withEnv == IF Truthy(filters.environment)
                   THEN Append(params, <<"environment", filters.environment[1]>>)
                   ELSE params
    IN  IF Truthy(filters.userId)
        THEN Append(withEnv, <<"user_id", filters.userId[1]>>)
        ELSE withEnv

\* the request a fetch operation issues: fetch(`${API_URL}${path}?${query}`)
Request(path, filters) ==
    [path |-> path, query |-> buildQueryString(filters), status |-> "pending"]

\* a request that has not been issued
NoRequest == [path |-> "", query |-> << >>, status |-> "none"]

\* what response.json() yields for a request that ended "ok"
ResponseOf(req) == [kind |-> "result", path |-> req.path, query |-> req.query]

\* the Error a fetch operation rejects with
ErrorOf(req, outcome) ==
    CASE outcome = "http_error"    -> [message |-> "Failed to fetch " \o EndpointLabel(req.path)]
      [] outcome = "network_error" -> [message |-> "TypeError: Failed to fetch"]

\* fetchAllFastKPIs with the first two names of the destructuring pattern
\* exchanged
fetchAllFastKPIs_SwappedFields(reqs) ==
    [f \in {FastFields[i] : i \in FastIdx} |->
        LET i == CHOOSE j \in FastIdx : FastFields[j] = f
            k == IF i = 1 THEN 2 ELSE IF i = 2 THEN 1 ELSE i
        IN  ResponseOf(reqs[FastKPIs[k]])]

\* the record fetchAllFastKPIs returns once all ten requests ended "ok":
\* field i of the destructuring pattern takes element i of the array
fetchAllFastKPIs(reqs) ==
    [f \in {FastFields[i] : i \in FastIdx} |->
        LET i == CHOOSE j \in FastIdx : FastFields[j] = f
        IN  ResponseOf(reqs[FastKPIs[i]])]

-----------------------------------------------------------------------------
(* The AuthGuard component: frontend/lib/api.ts *)

\* A string that may contain "@" is a sequence of tokens, each either "@"
\* or a run of other characters: "pat@instalily.ai" is
\* <<"pat", "@", "instalily.ai">>, and "" is << >>.

\* Only these email domains are allowed access
ALLOWED_DOMAINS ==
    << "srsdistribution.com",
       "instalily.ai",
       "mmhfgb.com",
       "heritagelsg.com",
       "heritagepsg.com" >>

\* String.prototype.toLowerCase on the strings of the model
toLowerCase(str) ==
    CASE str = "InstaLily.AI"        -> "instalily.ai"
      [] str = "SRSDISTRIBUTION.COM" -> "srsdistribution.com"
      [] str = "Gmail.com"           -> "gmail.com"
      [] OTHER                       -> str

\* String.prototype.split("@"): the pieces between the "@" tokens
RECURSIVE split(_)
split(tokens) ==
    IF tokens = << >> THEN << "" >>
    ELSE IF Head(tokens) = "@" THEN << "" >> \o split(Tail(tokens))
    ELSE LET rest == split(Tail(tokens))
         IN  << Head(tokens) \o Head(rest) >> \o Tail(rest)

\* useAuth0().user is undefined
NoUser == [kind |-> "undefined"]

\* user.email is undefined
NoEmail == [kind |-> "undefined"]

\* user.email is the string with these tokens
EmailString(tokens) == [kind |-> "string", tokens |-> tokens]

\* user.email.split("@")[1]?.toLowerCase(): a sequence that is empty when
\* the result is undefined and holds the one string otherwise
emailDomain(email) ==
    LET parts == split(email)
    IN  IF Len(parts) < 2 THEN << >> ELSE << toLowerCase(parts[2]) >>

\* ALLOWED_DOMAINS.some((domain) => emailDomain === domain.toLowerCase())
isAllowed(email) ==
    \E k \in 1..Len(ALLOWED_DOMAINS) :
        emailDomain(email) = << toLowerCase(ALLOWED_DOMAINS[k]) >>

\* AuthGuard testing isAuthenticated before isLoading
AuthGuard_RedirectsWhileLoading(loadingNow, authenticated, u) ==
    IF ~authenticated
    THEN [view |-> "redirecting", call |-> "loginWithRedirect"]
    ELSE IF loadingNow
    THEN [view |-> "loading", call |-> "none"]
    ELSE IF u # NoUser /\ u.email # NoEmail /\ u.email.tokens # << >>
            /\ ~isAllowed(u.email.tokens)
    THEN [view |-> "denied", call |-> "logout"]
    ELSE [view |-> "children", call |-> "none"]

\* one render of AuthGuard: what it returns and which Auth0 function it calls
AuthGuard(loadingNow, authenticated, u) ==
    IF loadingNow
    THEN [view |-> "loading", call |-> "none"]
    ELSE IF ~authenticated
    THEN [view |-> "redirecting", call |-> "loginWithRedirect"]
    ELSE IF u # NoUser /\ u.email # NoEmail /\ u.email.tokens # << >>
            /\ ~isAllowed(u.email.tokens)
    THEN [view |-> "denied", call |-> "logout"]
    ELSE [view |-> "children", call |-> "none"]

\* the email addresses of the Auth0 profiles explored
Emails ==
    { <<"pat", "@", "srsdistribution.com">>,
      <<"pat", "@", "instalily.ai">>,
      <<"pat", "@", "mmhfgb.com">>,
      <<"pat", "@", "heritagelsg.com">>,
      <<"pat", "@", "heritagepsg.com">>,
      <<"pat", "@", "InstaLily.AI">>,
      <<"pat", "@", "SRSDISTRIBUTION.COM">>,
      <<"pat", "@", "gmail.com">>,
      <<"pat", "@", "Gmail.com">>,
      <<"pat", "@", "instalily.ai.example.org">>,
      <<"instalily.ai", "@", "gmail.com">>,
      <<"pat", "@">>,
      <<"pat">>,
      <<"instalily.ai">>,
      << >> }

\* the Auth0 profiles explored: with an email string, or without the claim
Users == {[email |-> EmailString(e)] : e \in Emails} \cup {[email |-> NoEmail]}

\* the Auth0 context changes (isAuthenticated is true exactly when there is
\* a user) and AuthGuard renders again
Auth0Change(loadingNow, u) ==
    LET authenticated == u # NoUser
        out == AuthGuard(loadingNow, authenticated, u)
    IN  /\ <<loadingNow, u>> # <<isLoading, user>>
        /\ isLoading' = loadingNow
        /\ isAuthenticated' = authenticated
        /\ user' = u
        /\ rendered' = out.view
        /\ loginCalls' = loginCalls + (IF out.call = "loginWithRedirect" THEN 1 ELSE 0)
        /\ logoutCalls' = logoutCalls + (IF out.call = "logout" THEN 1 ELSE 0)
        /\ loginCalls' <= MaxCalls
        /\ logoutCalls' <= MaxCalls
        /\ UNCHANGED <<homeVars, otherVars>>

\* Auth0 is initialising and AuthGuard has rendered its loading state
InitAuth ==
    /\ startDate = "2025-12-01"
    /\ endDate = "2025-12-31"
    /\ productContext = "pool"
    /\ userType = "all"
    /\ data = Null
    /\ clustering = Null
    /\ sentiment = Null
    /\ loading = TRUE
    /\ clusteringLoading = TRUE
    /\ sentimentLoading = TRUE
    /\ error = Null
    /\ mounted = FALSE
    /\ cycles = << >>
    /\ serverUp = TRUE
    /\ isLoading = TRUE
    /\ isAuthenticated = FALSE
    /\ user = NoUser
    /\ rendered = "loading"
    /\ loginCalls = 0
    /\ logoutCalls = 0
    /\ ApiIdle
    /\ RenderIdle
    /\ EngineIdle

NextAuth ==
    \E loadingNow \in BOOLEAN, u \in Users \cup {NoUser} : Auth0Change(loadingNow, u)

SpecAuth == InitAuth /\ [][NextAuth]_vars

-----------------------------------------------------------------------------
(* The Home component: frontend/app/layout.tsx *)

\* the AnalyticsFilters literal fetchData builds from the filter state
\* (environment and userId are not set by Home)
HomeFilters ==
    [startDate      |-> startDate \o "T00:00:00",
     endDate        |-> endDate \o "T23:59:59",
     productContext |-> productContext,
     userType       |-> userType,
     environment    |-> Undefined,
     userId         |-> Undefined]

\* one invocation of fetchData up to its first await: fetchAllFastKPIs has
\* started its ten requests, the two slow requests are not issued yet
NewCycle(filters) ==
    [filters |-> filters,
     stage   |-> "fast",
     req     |-> [e \in Endpoints |->
                    IF e \in FastPaths THEN Request(e, filters) ELSE NoRequest]]

\* the render branches of Home, in the order the component tests them
View ==
    IF loading THEN "loading"
    ELSE IF error # Null THEN "error"
    ELSE IF data = Null THEN "blank"
    ELSE "dashboard"

\* the body of the effect: the synchronous part of fetchData
FetchData ==
    /\ loading' = TRUE
    /\ clusteringLoading' = TRUE
    /\ sentimentLoading' = TRUE
    /\ error' = Null
    /\ cycles' = Append(cycles, NewCycle(HomeFilters'))
    /\ UNCHANGED <<data, clustering, sentiment>>

\* a catch block that forgets setSentimentLoading(false)
Catch_LeavesSentimentLoading(err) ==
    /\ error' = err
    /\ loading' = FALSE
    /\ clusteringLoading' = FALSE
    /\ UNCHANGED sentimentLoading

\* the catch block of fetchData
Catch(err) ==
    /\ error' = err
    /\ loading' = FALSE
    /\ clusteringLoading' = FALSE
    /\ sentimentLoading' = FALSE

\* the effect runs after the first render
Mount ==
    /\ ~mounted
    /\ mounted' = TRUE
    /\ UNCHANGED <<startDate, endDate, productContext, userType>>
    /\ FetchData
    /\ UNCHANGED <<serverUp, authVars, otherVars>>

\* FilterControls is part of the last render branch only, and a run of the
\* effect starts a fetchData invocation
CanChangeFilters ==
    /\ mounted
    /\ View = "dashboard"
    /\ Len(cycles) < MaxCycles

\* <input type="date"> for the start date: onChange={setStartDate}
onStartDateChange(date) ==
    /\ CanChangeFilters
    /\ date # startDate
    /\ startDate' = date
    /\ UNCHANGED <<endDate, productContext, userType>>
    /\ FetchData
    /\ UNCHANGED <<mounted, serverUp, authVars, otherVars>>

\* <input type="date"> for the end date: onChange={setEndDate}
onEndDateChange(date) ==
    /\ CanChangeFilters
    /\ date # endDate
    /\ endDate' = date
    /\ UNCHANGED <<startDate, productContext, userType>>
    /\ FetchData
    /\ UNCHANGED <<mounted, serverUp, authVars, otherVars>>

\* <select> with the options pool and landscape
onProductContextChange(context) ==
    /\ CanChangeFilters
    /\ context # productContext
    /\ productContext' = context
    /\ UNCHANGED <<startDate, endDate, userType>>
    /\ FetchData
    /\ UNCHANGED <<mounted, serverUp, authVars, otherVars>>

\* <select> with the options all, internal and external
onUserTypeChange(type) ==
    /\ CanChangeFilters
    /\ type # userType
    /\ userType' = type
    /\ UNCHANGED <<startDate, endDate, productContext>>
    /\ FetchData
    /\ UNCHANGED <<mounted, serverUp, authVars, otherVars>>

\* handleReset also discarding the KPI results on display
handleReset_ClearsData ==
    /\ mounted
    /\ View = "dashboard"
    /\ startDate' = "2025-12-01"
    /\ endDate' = "2025-12-31"
    /\ productContext' = "pool"
    /\ userType' = "all"
    /\ data' = Null
    /\ IF <<startDate, endDate, productContext, userType>>
            = <<"2025-12-01", "2025-12-31", "pool", "all">>
       THEN UNCHANGED <<clustering, sentiment, loading, clusteringLoading,
                        sentimentLoading, error, cycles>>
       ELSE /\ Len(cycles) < MaxResetCycles
            /\ loading' = TRUE
            /\ clusteringLoading' = TRUE
            /\ sentimentLoading' = TRUE
            /\ error' = Null
            /\ cycles' = Append(cycles, NewCycle(HomeFilters'))
            /\ UNCHANGED <<clustering, sentiment>>
    /\ UNCHANGED <<mounted, serverUp, authVars, otherVars>>

\* the Reset Filters button; the effect runs only if a dependency changed
handleReset ==
    /\ mounted
    /\ View = "dashboard"
    /\ startDate' = "2025-12-01"
    /\ endDate' = "2025-12-31"
    /\ productContext' = "pool"
    /\ userType' = "all"
    /\ IF <<startDate, endDate, productContext, userType>>
            = <<"2025-12-01", "2025-12-31", "pool", "all">>
       THEN UNCHANGED <<data, clustering, sentiment, loading, clusteringLoading,
                        sentimentLoading, error, cycles>>
       ELSE Len(cycles) < MaxResetCycles /\ FetchData
    /\ UNCHANGED <<mounted, serverUp, authVars, otherVars>>

\* the requests of invocation c with the status of the request to path changed
SetStatus(c, path, status) ==
    [cycles[c].req EXCEPT ![path].status = status]

\* Promise.all fulfils: every one of the ten requests ended ok
AllFastOk(reqs) == \A i \in FastIdx : reqs[FastKPIs[i]].status = "ok"

\* AfterFastKPIs holding the fast results back until clustering has answered
AfterFastKPIs_AwaitsClustering(c, reqs) ==
    /\ cycles' = [cycles EXCEPT
                    ![c].req = [reqs EXCEPT ![ClusteringPath] =
                                  Request(ClusteringPath, cycles[c].filters)],
                    ![c].stage = "clustering"]
    /\ UNCHANGED <<data, loading, clustering, sentiment, clusteringLoading,
                   sentimentLoading, error>>

\* fetchData after "await fetchAllFastKPIs(filters)": setData,
\* setLoading(false), then the call of fetchPainPointClustering
AfterFastKPIs(c, reqs) ==
    /\ data' = [fast |-> fetchAllFastKPIs(reqs),
                painPointClustering |-> Null,
                sentimentAnalysis |-> Null]
    /\ loading' = FALSE
    /\ cycles' = [cycles EXCEPT
                    ![c].req = [reqs EXCEPT ![ClusteringPath] =
                                  Request(ClusteringPath, cycles[c].filters)],
                    ![c].stage = "clustering"]
    /\ UNCHANGED <<clustering, sentiment, clusteringLoading, sentimentLoading, error>>

\* AfterClustering building the sentiment request from the filter state of
\* the moment instead of the filters of its own invocation
AfterClustering_CurrentFilters(c, reqs) ==
    /\ clustering' = ResponseOf(reqs[ClusteringPath])
    /\ clusteringLoading' = FALSE
    /\ cycles' = [cycles EXCEPT
                    ![c].req = [reqs EXCEPT ![SentimentPath] =
                                  Request(SentimentPath, HomeFilters)],
                    ![c].stage = "sentiment"]
    /\ UNCHANGED <<data, sentiment, loading, sentimentLoading, error>>

\* fetchData after "await fetchPainPointClustering(filters)": setClustering,
\* setClusteringLoading(false), then the call of fetchSentimentAnalysis
AfterClustering(c, reqs) ==
    /\ clustering' = ResponseOf(reqs[ClusteringPath])
    /\ clusteringLoading' = FALSE
    /\ cycles' = [cycles EXCEPT
                    ![c].req = [reqs EXCEPT ![SentimentPath] =
                                  Request(SentimentPath, cycles[c].filters)],
                    ![c].stage = "sentiment"]
    /\ UNCHANGED <<data, sentiment, loading, sentimentLoading, error>>

\* fetchData after "await fetchSentimentAnalysis(filters)": setSentiment,
\* setSentimentLoading(false)
AfterSentiment(c, reqs) ==
    /\ sentiment' = ResponseOf(reqs[SentimentPath])
    /\ sentimentLoading' = FALSE
    /\ cycles' = [cycles EXCEPT ![c].req = reqs, ![c].stage = "done"]
    /\ UNCHANGED <<data, clustering, loading, clusteringLoading, error>>

\* an awaited promise of invocation c rejects: control passes to the catch
\* block and the invocation ends
Rejected(c, reqs, err) ==
    /\ cycles' = [cycles EXCEPT ![c].req = reqs, ![c].stage = "failed"]
    /\ Catch(err)
    /\ UNCHANGED <<data, clustering, sentiment>>

\* the response to fast KPI request i of invocation c arrives while
\* Promise.all is unsettled, and the code that awaits it runs.  Once
\* Promise.all has rejected, the responses still to come reach no code of
\* Home (their promises have no other consumer) and are not tracked.
FastKPIResponse(c, i, outcome) ==
    LET path == FastKPIs[i]
        reqs == SetStatus(c, path, IF outcome = "ok" THEN "ok" ELSE "rejected")
    IN  /\ serverUp
        /\ cycles[c].stage = "fast"
        /\ cycles[c].req[path].status = "pending"
        /\ IF outcome # "ok"
           THEN \* Promise.all rejects with the first rejection
                Rejected(c, reqs, ErrorOf(cycles[c].req[path], outcome))
           ELSE IF AllFastOk(reqs)
           THEN AfterFastKPIs(c, reqs)
           ELSE /\ cycles' = [cycles EXCEPT ![c].req = reqs]
                /\ UNCHANGED <<data, clustering, sentiment, loading,
                               clusteringLoading, sentimentLoading, error>>
        /\ UNCHANGED <<startDate, endDate, productContext, userType, mounted,
                       serverUp, authVars, otherVars>>

\* the response to the clustering request of invocation c arrives
ClusteringResponse(c, outcome) ==
    LET reqs == SetStatus(c, ClusteringPath, IF outcome = "ok" THEN "ok" ELSE "rejected")
    IN  /\ serverUp
        /\ cycles[c].req[ClusteringPath].status = "pending"
        /\ IF outcome = "ok"
           THEN AfterClustering(c, reqs)
           ELSE Rejected(c, reqs, ErrorOf(cycles[c].req[ClusteringPath], outcome))
        /\ UNCHANGED <<startDate, endDate, productContext, userType, mounted,
                       serverUp, authVars, otherVars>>

\* the response to the sentiment request of invocation c arrives
SentimentResponse(c, outcome) ==
    LET reqs == SetStatus(c, SentimentPath, IF outcome = "ok" THEN "ok" ELSE "rejected")
    IN  /\ serverUp
        /\ cycles[c].req[SentimentPath].status = "pending"
        /\ IF outcome = "ok"
           THEN AfterSentiment(c, reqs)
           ELSE Rejected(c, reqs, ErrorOf(cycles[c].req[SentimentPath], outcome))
        /\ UNCHANGED <<startDate, endDate, productContext, userType, mounted,
                       serverUp, authVars, otherVars>>

\* no earlier request of the same Promise.all batch is still unanswered
InOrder(c, i) ==
    \A j \in FastIdx : j < i => cycles[c].req[FastKPIs[j]].status # "pending"

\* the server stops answering: no fetch operation sets a timeout or an abort
\* signal, so every pending request stays pending
ServerStops ==
    /\ serverUp
    /\ serverUp' = FALSE
    /\ UNCHANGED <<startDate, endDate, productContext, userType, data, clustering,
                   sentiment, loading, clusteringLoading, sentimentLoading, error,
                   mounted, cycles, authVars, otherVars>>

-----------------------------------------------------------------------------
(* The dashboard specification *)

\* an Auth0 user whose email passes the AuthGuard
SignedInUser == [email |-> EmailString(<<"pat", "@", "instalily.ai">>)]

Init ==
    /\ startDate = "2025-12-01"
    /\ endDate = "2025-12-31"
    /\ productContext = "pool"
    /\ userType = "all"
    /\ data = Null
    /\ clustering = Null
    /\ sentiment = Null
    /\ loading = TRUE
    /\ clusteringLoading = TRUE
    /\ sentimentLoading = TRUE
    /\ error = Null
    /\ mounted = FALSE
    /\ cycles = << >>
    /\ serverUp = TRUE
    /\ isLoading = FALSE
    /\ isAuthenticated = TRUE
    /\ user = SignedInUser
    /\ rendered = "children"
    /\ loginCalls = 0
    /\ logoutCalls = 0
    /\ ApiIdle
    /\ RenderIdle
    /\ EngineIdle

\* a response the client is waiting for arrives
Responses ==
    \/ \E c \in 1..Len(cycles), i \in FastIdx, o \in Outcomes :
            InOrder(c, i) /\ FastKPIResponse(c, i, o)
    \/ \E c \in 1..Len(cycles), o \in Outcomes : ClusteringResponse(c, o)
    \/ \E c \in 1..Len(cycles), o \in Outcomes : SentimentResponse(c, o)

Next ==
    \/ Mount
    \/ \E date \in DateInputs : onStartDateChange(date)
    \/ \E date \in DateInputs : onEndDateChange(date)
    \/ \E context \in ProductContexts : onProductContextChange(context)
    \/ \E type \in UserTypes : onUserTypeChange(type)
    \/ Len(cycles) < MaxCycles /\ handleReset
    \/ Responses

\* The network delivers the responses of one Promise.all batch in request
\* order; the batches of different invocations, and the slow requests,
\* interleave freely.
Spec == Init /\ [][Next]_vars

NextAnyOrder ==
    \/ Mount
    \/ \E c \in 1..Len(cycles), i \in FastIdx, o \in Outcomes :
            FastKPIResponse(c, i, o)
    \/ \E c \in 1..Len(cycles), o \in Outcomes : ClusteringResponse(c, o)
    \/ \E c \in 1..Len(cycles), o \in Outcomes : SentimentResponse(c, o)

\* The fetchData invocation of the mount with a network that delivers the
\* ten responses of the Promise.all batch in any order.
SpecAnyOrder == Init /\ [][NextAnyOrder]_vars

NextReset ==
    \/ Next
    \/ handleReset

\* The dashboard with a Reset Filters button that may start one invocation
\* of fetchData more than the filter inputs may.
SpecReset == Init /\ [][NextReset]_vars

NextTimeout ==
    \/ Next
    \/ ServerStops

\* The dashboard with a server that may stop answering.  The effect runs
\* after the first render, and a server that is up answers every request;
\* nothing else is assumed.
SpecTimeout ==
    Init /\ [][NextTimeout]_vars /\ WF_vars(Mount) /\ WF_vars(Responses)

-----------------------------------------------------------------------------
(* A caller of the API client: frontend/lib/api.ts *)

\* the twelve exported fetch operations
FetchOperations ==
    { "fetchSessionMetrics", "fetchPainPointClustering", "fetchVolumeTrends",
      "fetchUserEngagement", "fetchUserRetention", "fetchQueryCategories",
      "fetchReturningUserBehavior", "fetchUserSegmentation", "fetchTimePatterns",
      "fetchConversationLength", "fetchPlatformAnalytics", "fetchSentimentAnalysis" }

\* the endpoint path each operation puts after API_URL
OperationPath(op) ==
    CASE op = "fetchSessionMetrics"        -> "/analytics/session-metrics"
      [] op = "fetchPainPointClustering"   -> "/analytics/pain-point-clustering"
      [] op = "fetchVolumeTrends"          -> "/analytics/volume-trends"
      [] op = "fetchUserEngagement"        -> "/analytics/user-engagement"
      [] op = "fetchUserRetention"         -> "/analytics/user-retention"
      [] op = "fetchQueryCategories"       -> "/analytics/query-categories"
      [] op = "fetchReturningUserBehavior" -> "/analytics/returning-user-behavior"
      [] op = "fetchUserSegmentation"      -> "/analytics/user-segmentation"
      [] op = "fetchTimePatterns"          -> "/analytics/time-patterns"
      [] op = "fetchConversationLength"    -> "/analytics/conversation-length"
      [] op = "fetchPlatformAnalytics"     -> "/analytics/platform-analytics"
      [] op = "fetchSentimentAnalysis"     -> "/analytics/sentiment-analysis"

\* the values setAuthToken is called with: null or a token
AuthTokens == { << >>, <<"tokenA">> }

\* the AnalyticsFilters values a caller passes
FilterInputs ==
    [startDate      : {"2025-12-01T00:00:00"},
     endDate        : {"2025-12-31T23:59:59"},
     productContext : ProductContexts,
     userType       : {"all", "external"},
     environment    : {Undefined, <<"">>, <<"production">>},
     userId         : {Undefined, <<"u-17">>}]

\* how the server can settle one request: a 2xx response with a JSON body,
\* a non-2xx response for one of the failure kinds it reports, or no
\* response at all
ServerReplies ==
    {"ok", "ValidationError", "DataAccessError", "ClassificationUnavailable",
     "unreachable"}

\* what the fetch operation sees of a reply: fetch() rejecting, response.ok
OutcomeOf(reply) ==
    CASE reply = "ok"          -> "ok"
      [] reply = "unreachable" -> "network_error"
      [] OTHER                 -> "http_error"

\* getAuthHeaders testing the stored token against null only
getAuthHeaders_BearerForEmptyToken ==
    IF authToken # << >>
    THEN << <<"Content-Type", "application/json">>,
            <<"Authorization", "Bearer " \o authToken[1]>> >>
    ELSE << <<"Content-Type", "application/json">> >>

\* getAuthHeaders(): Content-Type, and Authorization if authToken is truthy
getAuthHeaders ==
    IF Truthy(authToken)
    THEN << <<"Content-Type", "application/json">>,
            <<"Authorization", "Bearer " \o authToken[1]>> >>
    ELSE << <<"Content-Type", "application/json">> >>

\* setAuthToken(token)
setAuthToken(token) ==
    /\ authToken' = token
    /\ UNCHANGED <<opName, opFilters, calls>>
    /\ UNCHANGED <<homeVars, authVars, renderVars, engineVars>>

\* a fetch operation that clears the stored token once it has used it
FetchOperation_ConsumesToken(op, filters) ==
    /\ Len(calls) < MaxApiCalls
    /\ calls' = Append(calls, [req     |-> Request(OperationPath(op), filters),
                               headers |-> getAuthHeaders,
                               token   |-> authToken,
                               reply   |-> "pending",
                               result  |-> Null])
    /\ authToken' = << >>
    /\ UNCHANGED <<opName, opFilters>>
    /\ UNCHANGED <<homeVars, authVars, renderVars, engineVars>>

\* a fetch operation up to "await fetch(...)": the request is on its way.
\* token records the value of authToken the call was made under.
FetchOperation(op, filters) ==
    /\ Len(calls) < MaxApiCalls
    /\ calls' = Append(calls, [req     |-> Request(OperationPath(op), filters),
                               headers |-> getAuthHeaders,
                               token   |-> authToken,
                               reply   |-> "pending",
                               result  |-> Null])
    /\ UNCHANGED <<authToken, opName, opFilters>>
    /\ UNCHANGED <<homeVars, authVars, renderVars, engineVars>>

\* the rest of a fetch operation: the promise it returned fulfils with
\* response.json() or rejects with an Error
FetchSettles(k, reply) ==
    /\ calls[k].reply = "pending"
    /\ calls' = [calls EXCEPT
                   ![k].reply = reply,
                   ![k].result = IF OutcomeOf(reply) = "ok"
                                 THEN ResponseOf(calls[k].req)
                                 ELSE ErrorOf(calls[k].req, OutcomeOf(reply))]
    /\ UNCHANGED <<authToken, opName, opFilters>>
    /\ UNCHANGED <<homeVars, authVars, renderVars, engineVars>>

\* the state of Home before its effect has run
HomeUnmounted ==
    /\ startDate = "2025-12-01"
    /\ endDate = "2025-12-31"
    /\ productContext = "pool"
    /\ userType = "all"
    /\ data = Null
    /\ clustering = Null
    /\ sentiment = Null
    /\ loading = TRUE
    /\ clusteringLoading = TRUE
    /\ sentimentLoading = TRUE
    /\ error = Null
    /\ mounted = FALSE
    /\ cycles = << >>
    /\ serverUp = TRUE

\* AuthGuard has rendered its children for a signed-in user
AuthSignedIn ==
    /\ isLoading = FALSE
    /\ isAuthenticated = TRUE
    /\ user = SignedInUser
    /\ rendered = "children"
    /\ loginCalls = 0
    /\ logoutCalls = 0

\* a caller picks one operation and one filters value; no token is stored
InitApi ==
    /\ HomeUnmounted
    /\ AuthSignedIn
    /\ authToken = << >>
    /\ opName \in FetchOperations
    /\ opFilters \in FilterInputs
    /\ calls = << >>
    /\ RenderIdle
    /\ EngineIdle

NextApi ==
    \/ \E token \in AuthTokens : setAuthToken(token)
    \/ FetchOperation(opName, opFilters)
    \/ \E k \in 1..Len(calls), reply \in ServerReplies : FetchSettles(k, reply)

\* One caller calls one fetch operation repeatedly with one filters value,
\* while the token may be replaced; the server's data does not change.
SpecApi == InitApi /\ [][NextApi]_vars

\* the values setAuthToken accepts (string | null): null, the empty string
\* and two tokens
TokenInputs == { << >>, <<"">>, <<"tokenA">>, <<"tokenB">> }

\* a caller picks one operation; no token is stored
InitToken ==
    /\ HomeUnmounted
    /\ AuthSignedIn
    /\ authToken = << >>
    /\ opName \in FetchOperations
    /\ opFilters = [startDate      |-> "2025-12-01T00:00:00",
                    endDate        |-> "2025-12-31T23:59:59",
                    productContext |-> "pool",
                    userType       |-> "all",
                    environment    |-> Undefined,
                    userId         |-> Undefined]
    /\ calls = << >>
    /\ RenderIdle
    /\ EngineIdle

NextToken ==
    \/ \E token \in TokenInputs : setAuthToken(token)
    \/ FetchOperation(opName, opFilters)

\* The requests one caller sends while the stored token is set, replaced
\* and cleared; what the server answers plays no part.
SpecToken == InitToken /\ [][NextToken]_vars

-----------------------------------------------------------------------------
(* The last render branch of Home: frontend/app/layout.tsx *)

\* A value that may be undefined or null is a sequence: << >> when it is
\* either of them, <<v>> when it is the value v.  Numbers are integers; the
\* sentiment score is counted in thousandths (50 stands for 0.05).

\* the stats of the Top Stats row and of the metrics grid: the record of
\* data each reads, the field, and whether the value goes through toFixed
StatCards ==
    << [title |-> "Total Sessions",        kpi |-> "sessionMetrics",
        field |-> "total_sessions",                  fixed |-> FALSE],
       [title |-> "Unique Users",          kpi |-> "userEngagement",
        field |-> "unique_users",                    fixed |-> FALSE],
       [title |-> "avg conversations/user", kpi |-> "userEngagement",
        field |-> "avg_conversations_per_user",      fixed |-> TRUE],
       [title |-> "Positive Feedback",     kpi |-> "sessionMetrics",
        field |-> "positive_feedback_sessions",      fixed |-> FALSE],
       [title |-> "negative",              kpi |-> "sessionMetrics",
        field |-> "negative_feedback_sessions",      fixed |-> FALSE],
       [title |-> "Avg Response Time",     kpi |-> "sessionMetrics",
        field |-> "avg_response_time",               fixed |-> TRUE],
       [title |-> "Retention Rate",        kpi |-> "userRetention",
        field |-> "returning_users_percentage",      fixed |-> TRUE],
       [title |-> "Returning Users",       kpi |-> "userRetention",
        field |-> "returning_users",                 fixed |-> FALSE],
       [title |-> "One-time Users",        kpi |-> "userRetention",
        field |-> "one_time_users",                  fixed |-> FALSE],
       [title |-> "Average Messages",      kpi |-> "conversationLength",
        field |-> "avg_messages_per_session",        fixed |-> TRUE],
       [title |-> "Total Sessions",        kpi |-> "conversationLength",
        field |-> "total_sessions",                  fixed |-> FALSE],
       [title |-> "Longest Conversation",  kpi |-> "conversationLength",
        field |-> "longest_session_messages",        fixed |-> FALSE],
       [title |-> "Avg Sessions/User",     kpi |-> "returningUserBehavior",
        field |-> "avg_sessions_per_returning_user", fixed |-> TRUE],
       [title |-> "Avg Active Days",       kpi |-> "returningUserBehavior",
        field |-> "avg_days_between_first_last",     fixed |-> TRUE],
       [title |-> "Returning Users",       kpi |-> "returningUserBehavior",
        field |-> "returning_users_count",           fixed |-> FALSE] >>

\* the charts fed from data: the record each reads and its list field
Charts ==
    << [title |-> "Session Volume Trends", kpi |-> "volumeTrends",
        field |-> "daily_data"],
       [title |-> "Query Categories",      kpi |-> "queryCategories",
        field |-> "categories"],
       [title |-> "User Segmentation",     kpi |-> "userSegmentation",
        field |-> "segments"],
       [title |-> "Usage by Hour of Day",  kpi |-> "timePatterns",
        field |-> "by_hour"] >>

\* the fields of data the branch reads
RenderedKPIs ==
    {StatCards[i].kpi : i \in 1..Len(StatCards)} \cup {Charts[i].kpi : i \in 1..Len(Charts)}

\* the numeric fields the branch reads of one record of data
NumericFields(kpi) == {StatCards[i].field : i \in {j \in 1..Len(StatCards) : StatCards[j].kpi = kpi}}

\* the list fields the branch reads of one record of data
ListFields(kpi) == {Charts[i].field : i \in {j \in 1..Len(Charts) : Charts[j].kpi = kpi}}

\* record?.field
OptionalChain(record, field) ==
    IF record = << >> THEN << >> ELSE record[1][field]

\* value || 0 on an optional number: undefined, null and 0 give 0
OrZero(value) == IF value = << >> THEN 0 ELSE value[1]

\* value || [] on an optional list
OrEmptyList(value) == IF value = << >> THEN << >> ELSE value[1]

\* value.toFixed(digits): a TypeError when value is undefined or null
toFixed(value) ==
    IF value = << >>
    THEN [throws |-> TRUE, value |-> 0]
    ELSE [throws |-> FALSE, value |-> value[1]]

\* a stat that calls toFixed on the field itself, without "|| 0"
StatValue_NoDefault(d, card) ==
    IF card.fixed
    THEN toFixed(OptionalChain(d[card.kpi], card.field))
    ELSE [throws |-> FALSE, value |-> OrZero(OptionalChain(d[card.kpi], card.field))]

\* one stat: data.kpi?.field || 0, or (data.kpi?.field || 0).toFixed(1)
StatValue(d, card) ==
    IF card.fixed
    THEN toFixed(<< OrZero(OptionalChain(d[card.kpi], card.field)) >>)
    ELSE [throws |-> FALSE, value |-> OrZero(OptionalChain(d[card.kpi], card.field))]

\* the list one chart is fed: data.kpi?.field || []
ChartData(d, chart) == OrEmptyList(OptionalChain(d[chart.kpi], chart.field))

\* the Sentiment Trend label with the upper boundary counted as Positive
SentimentTrend_InclusiveBoundary(score) ==
    IF score >= 50 THEN "Positive"
    ELSE IF score < -50 THEN "Negative"
    ELSE "Neutral"

\* score > 0.05 ? "Positive" : score < -0.05 ? "Negative" : "Neutral"
SentimentTrend(score) ==
    IF score > 50 THEN "Positive"
    ELSE IF score < -50 THEN "Negative"
    ELSE "Neutral"

\* the Sentiment Analysis panel
SentimentPanel(isLoadingNow, s) ==
    IF isLoadingNow THEN [kind |-> "spinner", throws |-> FALSE]
    ELSE IF s = << >> THEN [kind |-> "unavailable", throws |-> FALSE]
    ELSE [kind   |-> "panel",
          throws |-> toFixed(s[1].avg_sentiment_score).throws,
          trend  |-> SentimentTrend(OrZero(s[1].avg_sentiment_score))]

\* what the last branch of Home renders: the stats, the charts' data and
\* the sentiment panel, or nothing at all when an expression throws
RenderDashboard(d, isLoadingNow, s) ==
    LET stats == [i \in 1..Len(StatCards) |-> StatValue(d, StatCards[i])]
        panel == SentimentPanel(isLoadingNow, s)
    IN  IF (\E i \in 1..Len(StatCards) : stats[i].throws) \/ panel.throws
        THEN [kind |-> "exception"]
        ELSE [kind      |-> "view",
              stats     |-> [i \in 1..Len(StatCards) |-> stats[i].value],
              charts    |-> [i \in 1..Len(Charts) |-> ChartData(d, Charts[i])],
              sentiment |-> panel]

\* the forms in which the server's JSON for one KPI reaches the branch: no
\* record, a record without the fields, a record of zeros and empty lists,
\* a record of a range with sessions
Shapes == {"absent", "empty", "zero", "populated"}

\* the record of one KPI in one of these forms
RecordOf(kpi, shape) ==
    IF shape = "absent" THEN << >>
    ELSE << [f \in NumericFields(kpi) \cup ListFields(kpi) |->
                CASE shape = "empty" -> << >>
                  [] shape = "zero"  -> IF f \in ListFields(kpi) THEN << << >> >> ELSE << 0 >>
                  [] OTHER           -> IF f \in ListFields(kpi) THEN << << "row" >> >>
                                        ELSE << 7 >>] >>

\* the values of data explored: all KPIs in one form, or all but one
DataInputs ==
    { [kpi \in RenderedKPIs |-> RecordOf(kpi, IF kpi = odd THEN other ELSE base)] :
        base \in Shapes, other \in Shapes, odd \in RenderedKPIs }

\* the average scores explored, in thousandths
Scores == {-1000, -51, -50, -49, 0, 49, 50, 51, 1000}

\* the values of sentiment explored: null, or a record with its score
SentimentInputs ==
    { << >> } \cup { << [avg_sentiment_score |-> << score >>] >> : score \in Scores }

\* Home renders its last branch from what is in served
Render ==
    /\ served # Null
    /\ screen = Null
    /\ screen' = RenderDashboard(served.data, served.sentimentLoading, served.sentiment)
    /\ UNCHANGED served
    /\ UNCHANGED <<homeVars, authVars, apiVars, engineVars>>

\* the fast KPIs have arrived, in some form, and possibly the sentiment
\* result after them
InitRender ==
    /\ HomeUnmounted
    /\ AuthSignedIn
    /\ ApiIdle
    /\ served \in [data             : DataInputs,
                   sentimentLoading : BOOLEAN,
                   sentiment        : SentimentInputs]
    /\ screen = Null
    /\ EngineIdle

NextRender == Render

SpecRender == InitRender /\ [][NextRender]_vars

-----------------------------------------------------------------------------
(* The analytics engine behind the endpoints.  Its code is not among the    *)
(* source files; it is modelled from the specification (sections 3, 4.4,    *)
(* 4.5 and 8) and from DEPLOYMENT.md.  Percentages are counted in tenths of *)
(* a percent (1000 stands for 100%), sentiment scores in thousandths.       *)

\* the users whose sessions the source holds
EngineUsers == {"u1", "u2", "u3"}

\* the number of sessions a user can have in the range (0: none)
SessionCountValues == {0, 1, 2, 3, 9, 10, 12}

\* the four fixed segments
SegmentNames == << "power", "regular", "casual", "one-time" >>

\* the segments with "regular" reaching up to 10 sessions
InSegment_RegularUpToTen(segment, n) ==
    CASE segment = "power"    -> n >= 10
      [] segment = "regular"  -> n >= 3 /\ n <= 10
      [] segment = "casual"   -> n = 2
      [] segment = "one-time" -> n = 1

\* power (>= 10), regular (3-9), casual (2), one-time (1)
InSegment(segment, n) ==
    CASE segment = "power"    -> n >= 10
      [] segment = "regular"  -> n >= 3 /\ n <= 9
      [] segment = "casual"   -> n = 2
      [] segment = "one-time" -> n = 1

\* the elements of a sequence
Range(seq) == { seq[i] : i \in 1..Len(seq) }

\* the sum of f over the buckets of a sequence of distinct buckets
RECURSIVE SumOver(_, _)
SumOver(f, order) ==
    IF order = << >> THEN 0 ELSE f[Head(order)] + SumOver(f, Tail(order))

\* the first bucket, in order, with the largest count
Largest(counts, order) ==
    order[CHOOSE i \in 1..Len(order) :
            /\ \A j \in 1..Len(order) : counts[order[j]] <= counts[order[i]]
            /\ \A j \in 1..(i - 1) : counts[order[j]] < counts[order[i]]]

\* count / total as a percentage, rounded to the nearest tenth
RoundedShare(count, total) == (2000 * count + total) \div (2 * total)

\* percentages that are each rounded and left as they are
Percentages_NoAdjustment(counts, order) ==
    LET total == SumOver(counts, order)
    IN  IF total = 0
        THEN [b \in Range(order) |-> 0]
        ELSE [b \in Range(order) |-> RoundedShare(counts[b], total)]

\* the percentages of a breakdown: all 0 for an empty result set, otherwise
\* each rounded, the residual to 100 going to the largest bucket
Percentages(counts, order) ==
    LET total == SumOver(counts, order)
    IN  IF total = 0
        THEN [b \in Range(order) |-> 0]
        ELSE LET raw == [b \in Range(order) |-> RoundedShare(counts[b], total)]
             IN  [raw EXCEPT ![Largest(counts, order)] = @ + (1000 - SumOver(raw, order))]

\* the record of a breakdown
Breakdown(kind, counts, order) ==
    [kind        |-> kind,
     order       |-> order,
     counts      |-> counts,
     percentages |-> Percentages(counts, order)]

\* User Segmentation: users with at least one session, by session count
UserSegmentation(sessions) ==
    Breakdown("user_segmentation",
              [segment \in Range(SegmentNames) |->
                  Cardinality({u \in EngineUsers :
                                  sessions[u] >= 1 /\ InSegment(segment, sessions[u])})],
              SegmentNames)

\* the 5 pain-point clusters; the first is the catch-all
ClusterTaxonomy ==
    [buckets  |-> << "General branch hours / orders / pool questions",
                     "Pump recommendations",
                     "Replacement filter parts",
                     "Stock availability by part number",
                     "DE filter assembly" >>,
     catchAll |-> "General branch hours / orders / pool questions"]

\* the 10 query categories; "Out of scope" is the catch-all
CategoryTaxonomy ==
    [buckets  |-> << "Product catalog", "Compatible parts", "Pricing / inventory",
                     "Invoice / payment", "Product manuals", "Orders",
                     "General conversation", "Tutorial videos", "Out of scope",
                     "Nearest branch" >>,
     catchAll |-> "Out of scope"]

\* the classifier's answer taken as it comes
Coerce_PassThrough(bucket, taxonomy) == bucket

\* an answer outside the taxonomy is coerced to the catch-all bucket
Coerce(bucket, taxonomy) ==
    IF bucket \in Range(taxonomy.buckets) THEN bucket ELSE taxonomy.catchAll

\* a set of buckets as a sequence
RECURSIVE SeqOf(_)
SeqOf(set) ==
    IF set = {} THEN << >>
    ELSE LET b == CHOOSE x \in set : TRUE IN << b >> \o SeqOf(set \ {b})

\* a clustering or category result: the answers grouped by assigned bucket,
\* the buckets of the taxonomy that got no answer counting 0
Classification(kind, taxonomy, answers) ==
    LET assigned == [i \in 1..Len(answers) |-> Coerce(answers[i].bucket, taxonomy)]
        order    == taxonomy.buckets \o SeqOf(Range(assigned) \ Range(taxonomy.buckets))
    IN  Breakdown(kind,
                  [b \in Range(order) |->
                      Cardinality({i \in 1..Len(answers) : assigned[i] = b})],
                  order)

\* the three sentiment bands, in the order of the distribution
SentimentBands == << "positive", "neutral", "negative" >>

\* positive: score > 0.05, negative: score < -0.05, neutral between
SentimentBand(score) ==
    IF score > 50 THEN "positive"
    ELSE IF score < -50 THEN "negative"
    ELSE "neutral"

\* the sentiment distribution of the scored texts
SentimentDistribution(answers) ==
    Breakdown("sentiment_distribution",
              [band \in Range(SentimentBands) |->
                  Cardinality({i \in 1..Len(answers) :
                                  SentimentBand(answers[i].score) = band})],
              SentimentBands)

\* what classify(text, taxonomy) can answer: a bucket, inside or outside
\* the taxonomy in use, and a score
ClassifierAnswers ==
    [bucket : {"Pump recommendations", "Product catalog", "Warranty claims"},
     score  : {-600, 50, 600}]

\* the answers to the texts of one request, one per text
RECURSIVE AnswerSeqs(_)
AnswerSeqs(n) ==
    IF n = 0 THEN { << >> }
    ELSE AnswerSeqs(n - 1)
         \cup { Append(seq, a) : seq \in { t \in AnswerSeqs(n - 1) : Len(t) = n - 1 },
                                 a \in ClassifierAnswers }

\* the user segmentation endpoint
ComputeUserSegmentation ==
    /\ summary' = UserSegmentation(sessionCounts)
    /\ UNCHANGED <<sessionCounts, classifierOutput>>
    /\ UNCHANGED <<homeVars, authVars, apiVars, renderVars>>

\* the pain-point clustering endpoint
ComputePainPointClustering ==
    /\ summary' = Classification("pain_point_clustering", ClusterTaxonomy, classifierOutput)
    /\ UNCHANGED <<sessionCounts, classifierOutput>>
    /\ UNCHANGED <<homeVars, authVars, apiVars, renderVars>>

\* the query categories endpoint
ComputeQueryCategories ==
    /\ summary' = Classification("query_categories", CategoryTaxonomy, classifierOutput)
    /\ UNCHANGED <<sessionCounts, classifierOutput>>
    /\ UNCHANGED <<homeVars, authVars, apiVars, renderVars>>

\* the sentiment analysis endpoint
ComputeSentimentAnalysis ==
    /\ summary' = SentimentDistribution(classifierOutput)
    /\ UNCHANGED <<sessionCounts, classifierOutput>>
    /\ UNCHANGED <<homeVars, authVars, apiVars, renderVars>>

\* a range is selected: the sessions of each user in it, and the
\* classifier's answers to its texts
InitEngine ==
    /\ HomeUnmounted
    /\ AuthSignedIn
    /\ ApiIdle
    /\ RenderIdle
    /\ \/ /\ sessionCounts \in [EngineUsers -> SessionCountValues]
          /\ classifierOutput = << >>
       \/ /\ sessionCounts = [u \in EngineUsers |-> 0]
          /\ classifierOutput \in AnswerSeqs(MaxTexts)
    /\ summary = Null

NextEngine ==
    \/ ComputeUserSegmentation
    \/ ComputePainPointClustering
    \/ ComputeQueryCategories
    \/ ComputeSentimentAnalysis

SpecEngine == InitEngine /\ [][NextEngine]_vars

-----------------------------------------------------------------------------
(* Properties *)

\* request e of invocation c has been issued
Issued(c, e) == cycles[c].req[e].status # "none"

\* the values a query carries under a key
ValuesOf(query, key) == { query[k][2] : k \in { n \in 1..Len(query) : query[n][1] = key } }

\* how many parameters of a query have a key
CountOf(query, key) == Cardinality({ n \in 1..Len(query) : query[n][1] = key })

\* C1: every request the client issues carries exactly one product_context
\* parameter, and its value is the productContext of the filters the request
\* was made with; so no request names both sources or the other source.
C1_OneProductContext ==
    \A c \in 1..Len(cycles) : \A e \in Endpoints :
        Issued(c, e) =>
            /\ CountOf(cycles[c].req[e].query, "product_context") = 1
            /\ ValuesOf(cycles[c].req[e].query, "product_context")
                    = {cycles[c].filters.productContext}

\* C1 witness: an invocation for landscape has issued all twelve requests
\* after an invocation for pool issued its own
C1_Witness ==
    /\ \E c \in 1..Len(cycles) :
        cycles[c].filters.productContext = "pool" /\ Issued(c, FastKPIs[1])
    /\ \E c \in 1..Len(cycles) :
        /\ cycles[c].filters.productContext = "landscape"
        /\ \A e \in Endpoints : Issued(c, e)

\* the status of request e of invocation c
StatusOf(c, e) == cycles[c].req[e].status

\* C2 (Scenario D): when the clustering request of the latest invocation has
\* failed after its Session Metrics request succeeded, the Session Metrics
\* result is still stored and the dashboard showing it is what Home renders.
C2_SessionMetricsSurvive ==
    \A c \in 1..Len(cycles) :
        (c = Len(cycles) /\ StatusOf(c, ClusteringPath) = "rejected"
            /\ StatusOf(c, "/analytics/session-metrics") = "ok")
        => /\ data # Null
           /\ data.fast.sessionMetrics
                = ResponseOf(cycles[c].req["/analytics/session-metrics"])
           /\ View = "dashboard"

\* C3: when a fast KPI request of the latest invocation has failed, the
\* result of every fast KPI request of that invocation that succeeded has
\* been handed to the caller (it is in data).
C3_SiblingKPIsReturned ==
    \A c \in 1..Len(cycles) :
        (c = Len(cycles) /\ \E i \in FastIdx : StatusOf(c, FastKPIs[i]) = "rejected")
        => \A j \in FastIdx :
              StatusOf(c, FastKPIs[j]) = "ok"
              => /\ data # Null
                 /\ data.fast[FastFields[j]] = ResponseOf(cycles[c].req[FastKPIs[j]])

\* C4: an invocation whose clustering request failed has, by the time it
\* ends, issued its sentiment request and had it answered, a successful
\* answer being stored with sentimentLoading false; and when the sentiment
\* request of the only invocation failed, its clustering result stays in
\* clustering.
C4_ClassificationFamiliesIndependent ==
    \A c \in 1..Len(cycles) :
        /\ (cycles[c].stage \in {"done", "failed"}
                /\ StatusOf(c, ClusteringPath) = "rejected")
           => /\ StatusOf(c, SentimentPath) \in {"ok", "rejected"}
              /\ (StatusOf(c, SentimentPath) = "ok" /\ c = Len(cycles))
                 => (sentiment = ResponseOf(cycles[c].req[SentimentPath])
                        /\ ~sentimentLoading)
        /\ (Len(cycles) = 1 /\ StatusOf(c, SentimentPath) = "rejected")
           => clustering = ResponseOf(cycles[c].req[ClusteringPath])

\* data holds the ten fast results of invocation c, each under its own field
HoldsFastResultsOf(d, c) ==
    /\ d # Null
    /\ \A i \in FastIdx :
        /\ d.fast[FastFields[i]].path = FastKPIs[i]
        /\ d.fast[FastFields[i]].query = cycles[c].req[FastKPIs[i]].query

\* the step in which the last of the ten fast KPI responses of invocation c
\* arrives, all ten having succeeded
FastBatchCompletes(c) ==
    /\ cycles[c].stage = "fast"
    /\ \A i \in FastIdx : cycles'[c].req[FastKPIs[i]].status = "ok"

\* C5: in the very step in which the ten fast KPI requests of an invocation
\* have all succeeded, data is set to their results and loading becomes
\* false, while the clustering request is only then issued and the sentiment
\* request is not issued yet: neither classification result is waited for.
C5_FastKPIsNotBlocked ==
    [][ \A c \in 1..Len(cycles) :
            FastBatchCompletes(c)
            => /\ HoldsFastResultsOf(data', c)
               /\ loading' = FALSE
               /\ cycles[c].req[ClusteringPath].status = "none"
               /\ cycles'[c].req[ClusteringPath].status = "pending"
               /\ cycles'[c].req[SentimentPath].status = "none"
               /\ UNCHANGED <<clustering, sentiment, clusteringLoading,
                              sentimentLoading>> ]_vars

\* C5 witness: the fast results of an invocation are on display while its
\* clustering request is pending and its sentiment request not yet issued
C5_Witness ==
    \E c \in 1..Len(cycles) :
        /\ cycles[c].stage = "clustering"
        /\ StatusOf(c, ClusteringPath) = "pending"
        /\ StatusOf(c, SentimentPath) = "none"
        /\ HoldsFastResultsOf(data, c)
        /\ ~loading /\ clusteringLoading /\ sentimentLoading
        /\ View = "dashboard"

\* C6: from any state the dashboard eventually reaches a state in which
\* loading, clusteringLoading and sentimentLoading are all false, even when
\* the server stops answering.
C6_NoIndefiniteBlocking ==
    []<>(~loading /\ ~clusteringLoading /\ ~sentimentLoading)

\* the position of a timestamp of the model in time (0: not a timestamp)
TimestampRank(t) ==
    CASE t = "2025-11-30T00:00:00" -> 1
      [] t = "2025-11-30T23:59:59" -> 2
      [] t = "2025-12-01T00:00:00" -> 3
      [] t = "2025-12-01T23:59:59" -> 4
      [] t = "2025-12-31T00:00:00" -> 5
      [] t = "2025-12-31T23:59:59" -> 6
      [] OTHER -> 0

\* both are timestamps and the first is earlier than the second
Earlier(t1, t2) ==
    /\ TimestampRank(t1) > 0
    /\ TimestampRank(t2) > 0
    /\ TimestampRank(t1) < TimestampRank(t2)

\* C7: no request is issued for filters whose end is earlier than their
\* start (such filters are rejected before any endpoint is called).
C7_EndBeforeStartNotSent ==
    \A c \in 1..Len(cycles) : \A e \in Endpoints :
        Issued(c, e) => ~Earlier(cycles[c].filters.endDate, cycles[c].filters.startDate)

\* C8: every request issued carries start_date = <date>T00:00:00 and
\* end_date = <date>T23:59:59 with a non-empty date.
C8_DatesPresent ==
    \A c \in 1..Len(cycles) : \A e \in Endpoints :
        Issued(c, e) =>
            /\ ValuesOf(cycles[c].req[e].query, "start_date")
                 \subseteq {"2025-11-30T00:00:00", "2025-12-01T00:00:00",
                            "2025-12-31T00:00:00"}
            /\ ValuesOf(cycles[c].req[e].query, "end_date")
                 \subseteq {"2025-11-30T23:59:59", "2025-12-01T23:59:59",
                            "2025-12-31T23:59:59"}

\* C9: productContext is pool or landscape and userType is all, internal or
\* external in every state, and every request carries such values.
C9_ClosedEnumerations ==
    /\ productContext \in {"pool", "landscape"}
    /\ userType \in {"all", "internal", "external"}
    /\ \A c \in 1..Len(cycles) : \A e \in Endpoints :
        Issued(c, e) =>
            /\ ValuesOf(cycles[c].req[e].query, "product_context")
                 \subseteq {"pool", "landscape"}
            /\ ValuesOf(cycles[c].req[e].query, "user_type")
                 \subseteq {"all", "internal", "external"}

\* C9 witness: the user type was changed to external and an invocation has
\* issued all its requests with it
C9_Witness ==
    /\ userType = "external"
    /\ \E c \in 1..Len(cycles) : \A e \in Endpoints :
        /\ Issued(c, e)
        /\ ValuesOf(cycles[c].req[e].query, "user_type") = {"external"}

\* the user has an email whose part after the last "@" is, ignoring case,
\* one of the five allowed domains
HasAllowedDomain(u) ==
    /\ u # NoUser
    /\ u.email # NoEmail
    /\ LET parts == split(u.email.tokens)
       IN  /\ Len(parts) >= 2
           /\ toLowerCase(parts[Len(parts)])
                \in {"srsdistribution.com", "instalily.ai", "mmhfgb.com",
                     "heritagelsg.com", "heritagepsg.com"}

\* C10: AuthGuard renders the children exactly when Auth0 has finished
\* loading, the user is authenticated and the user's email domain is one of
\* the five allowed domains; in every other case, an authenticated user
\* without email included, the children are not rendered.
C10_ChildrenOnlyForAllowedDomain ==
    (rendered = "children")
        <=> (~isLoading /\ isAuthenticated /\ HasAllowedDomain(user))

\* the keys a query carries
KeysOf(query) == { query[n][1] : n \in 1..Len(query) }

\* an optional filter field holds a non-empty string
NonEmpty(field) == field # << >> /\ field # <<"">>

\* C11: the query string of every request a fetch operation issues carries
\* exactly one each of start_date, end_date, product_context and user_type
\* with the filters' values, carries environment (once, with the filter's
\* value) if and only if filters.environment is non-empty, carries user_id
\* likewise, and carries no other parameter.
C11_QueryStringOfFilters ==
    \A k \in 1..Len(calls) :
        LET q == calls[k].req.query
        IN  /\ CountOf(q, "start_date") = 1
            /\ ValuesOf(q, "start_date") = {opFilters.startDate}
            /\ CountOf(q, "end_date") = 1
            /\ ValuesOf(q, "end_date") = {opFilters.endDate}
            /\ CountOf(q, "product_context") = 1
            /\ ValuesOf(q, "product_context") = {opFilters.productContext}
            /\ CountOf(q, "user_type") = 1
            /\ ValuesOf(q, "user_type") = {opFilters.userType}
            /\ IF NonEmpty(opFilters.environment)
               THEN /\ CountOf(q, "environment") = 1
                    /\ ValuesOf(q, "environment") = {opFilters.environment[1]}
               ELSE CountOf(q, "environment") = 0
            /\ IF NonEmpty(opFilters.userId)
               THEN /\ CountOf(q, "user_id") = 1
                    /\ ValuesOf(q, "user_id") = {opFilters.userId[1]}
               ELSE CountOf(q, "user_id") = 0
            /\ KeysOf(q) \subseteq {"start_date", "end_date", "product_context",
                                    "user_type", "environment", "user_id"}

\* C11 witness: a request was issued for filters whose environment is the
\* empty string and whose userId is set
C11_Witness ==
    /\ opFilters # Null
    /\ opFilters.environment = <<"">>
    /\ opFilters.userId = <<"u-17">>
    /\ opFilters.productContext = "landscape"
    /\ Len(calls) >= 1

\* the two classification operations
ClassificationPaths == {ClusteringPath, SentimentPath}

\* the failure kinds a server reports with a non-2xx response
ReportedFailures == {"ValidationError", "DataAccessError", "ClassificationUnavailable"}

\* C12: when two calls of a classification operation failed with different
\* failure kinds reported by the server, the errors the two calls rejected
\* with differ, so that ClassificationUnavailable can be told from a
\* data-access failure and from a validation failure.
C12_ClassificationFailureDistinct ==
    \A i \in 1..Len(calls) : \A j \in 1..Len(calls) :
        (/\ calls[i].req.path \in ClassificationPaths
         /\ calls[i].reply \in ReportedFailures
         /\ calls[j].reply \in ReportedFailures
         /\ calls[i].reply # calls[j].reply)
        => calls[i].result # calls[j].result

Families ==
    { "session metrics", "volume trends", "user engagement", "user retention",
      "query categories", "agent tool usage", "returning user behavior",
      "user segmentation", "time patterns", "conversation length",
      "platform analytics", "pain point clustering", "sentiment analysis" }

\* the fetch operations of the client that serve a family
OperationsFor(family) ==
    { op \in FetchOperations : EndpointLabel(OperationPath(op)) = family }

\* C18: for each of the thirteen families the client has exactly one fetch
\* operation, the paths of the operations are pairwise distinct, and the
\* operation a caller uses is the one of a family.
C18_OneOperationPerFamily ==
    /\ \A family \in Families : Cardinality(OperationsFor(family)) = 1
    /\ \A op1 \in FetchOperations : \A op2 \in FetchOperations :
            op1 # op2 => OperationPath(op1) # OperationPath(op2)
    /\ opName \in FetchOperations
        => EndpointLabel(OperationPath(opName)) \in Families

\* every invocation of fetchData has run to its end with all twelve
\* requests answered successfully: nothing is in flight any more
AllCompleted ==
    /\ Len(cycles) >= 1
    /\ \A c \in 1..Len(cycles) : cycles[c].stage = "done"

\* C20: once every request in flight has completed, data, clustering and
\* sentiment all hold the results fetched by the latest invocation, the one
\* made for the current filter values, whatever the order of arrival.
C20_LatestResultsWin ==
    AllCompleted
    => LET c == Len(cycles)
       IN  /\ cycles[c].filters = HomeFilters
           /\ HoldsFastResultsOf(data, c)
           /\ clustering = ResponseOf(cycles[c].req[ClusteringPath])
           /\ sentiment = ResponseOf(cycles[c].req[SentimentPath])

\* the record of one KPI is a zero/empty record: no record at all, or every
\* numeric field 0 or absent and every list field empty or absent
ZeroOrEmptyRecord(kpi, record) ==
    \/ record = << >>
    \/ /\ \A f \in NumericFields(kpi) : record[1][f] \in { << >>, << 0 >> }
       /\ \A f \in ListFields(kpi) : record[1][f] = << >> \/ record[1][f][1] = << >>

\* C17: whenever the sentiment panel is shown, its trend label is Positive
\* exactly when score > 0.05, Negative exactly when score < -0.05 and
\* Neutral exactly when -0.05 <= score <= 0.05; it is always one of the
\* three.
C17_SentimentBands ==
    (screen # Null /\ served.sentiment # << >> /\ ~served.sentimentLoading)
    => LET score == served.sentiment[1].avg_sentiment_score[1]
       IN  /\ screen.kind = "view"
           /\ screen.sentiment.kind = "panel"
           /\ screen.sentiment.trend \in {"Positive", "Negative", "Neutral"}
           /\ (screen.sentiment.trend = "Positive") <=> (score > 50)
           /\ (screen.sentiment.trend = "Negative") <=> (score < -50)
           /\ (screen.sentiment.trend = "Neutral") <=> (score >= -50 /\ score <= 50)

\* C17 witness: the panel is shown for the boundary score 0.05 and reads
\* Neutral
C17_Witness ==
    /\ screen # Null
    /\ served.sentiment = << [avg_sentiment_score |-> << 50 >>] >>
    /\ screen.kind = "view"
    /\ screen.sentiment.kind = "panel"
    /\ screen.sentiment.trend = "Neutral"

UsersInRange == { u \in EngineUsers : sessionCounts[u] >= 1 }

\* the segment the claim gives a user with n sessions
SegmentOfCount(n) ==
    IF n >= 10 THEN "power"
    ELSE IF n >= 3 THEN "regular"
    ELSE IF n = 2 THEN "casual"
    ELSE "one-time"

\* C14: in a user segmentation result every user with at least one session
\* is counted in exactly one of power (10 or more), regular (3 to 9), casual
\* (2) and one-time (1); a user with 12 sessions is counted in power; and
\* the four counts sum to the number of distinct users in range.
C14_SegmentationPartition ==
    (summary # Null /\ summary.kind = "user_segmentation")
    => /\ DOMAIN summary.counts = {"power", "regular", "casual", "one-time"}
       /\ \A u \in UsersInRange :
            Cardinality({ segment \in DOMAIN summary.counts :
                            InSegment(segment, sessionCounts[u]) }) = 1
       /\ \A segment \in DOMAIN summary.counts :
            summary.counts[segment]
              = Cardinality({ u \in UsersInRange :
                                SegmentOfCount(sessionCounts[u]) = segment })
       /\ (\E u \in EngineUsers : sessionCounts[u] = 12) => summary.counts["power"] >= 1
       /\ SumOver(summary.counts, SegmentNames) = Cardinality(UsersInRange)

\* C14 witness: a segmentation of three users, one with 12 sessions, one
\* with 10 and one with 9
C14_Witness ==
    /\ summary # Null
    /\ summary.kind = "user_segmentation"
    /\ { sessionCounts[u] : u \in EngineUsers } = {9, 10, 12}
    /\ summary.counts["power"] = 2
    /\ summary.counts["regular"] = 1

\* C15: in every percentage breakdown over a non-empty result set the
\* percentages sum to 100, every bucket but the largest holding its share
\* rounded; over an empty result set every percentage is 0.
C15_PercentagesSumTo100 ==
    summary # Null
    => IF SumOver(summary.counts, summary.order) > 0
       THEN /\ SumOver(summary.percentages, summary.order) = 1000
            /\ \A b \in Range(summary.order) :
                 b # Largest(summary.counts, summary.order)
                 => summary.percentages[b]
                      = RoundedShare(summary.counts[b],
                                     SumOver(summary.counts, summary.order))
       ELSE \A b \in Range(summary.order) : summary.percentages[b] = 0

\* C15 witness: three sentiment bands with one text each, the thirds
\* rounding to 33.3 and the largest bucket reported as 33.4
C15_Witness ==
    /\ summary # Null
    /\ summary.kind = "sentiment_distribution"
    /\ \A band \in Range(SentimentBands) : summary.counts[band] = 1
    /\ summary.percentages["positive"] = 334
    /\ summary.percentages["neutral"] = 333

\* the taxonomy of a clustering or category result
TaxonomyOf(kind) ==
    IF kind = "pain_point_clustering" THEN ClusterTaxonomy ELSE CategoryTaxonomy

\* C16: the buckets of a clustering result are the 5 clusters and those of
\* a category result the 10 categories, whatever the classifier answered;
\* an answer outside the taxonomy is counted in the catch-all bucket.
C16_TaxonomyClosed ==
    (summary # Null /\ summary.kind \in {"pain_point_clustering", "query_categories"})
    => LET taxonomy == TaxonomyOf(summary.kind)
           inside   == Range(taxonomy.buckets)
       IN  /\ DOMAIN summary.counts = inside
           /\ Cardinality(DOMAIN summary.counts)
                = (IF summary.kind = "pain_point_clustering" THEN 5 ELSE 10)
           /\ summary.counts[taxonomy.catchAll]
                = Cardinality({ i \in 1..Len(classifierOutput) :
                                  \/ classifierOutput[i].bucket \notin inside
                                  \/ classifierOutput[i].bucket = taxonomy.catchAll })
           /\ \A b \in inside \ {taxonomy.catchAll} :
                summary.counts[b]
                  = Cardinality({ i \in 1..Len(classifierOutput) :
                                    classifierOutput[i].bucket = b })

\* C16 witness: a clustering result for three texts, two of them answered
\* with buckets outside the 5 clusters
C16_Witness ==
    /\ summary # Null
    /\ summary.kind = "pain_point_clustering"
    /\ Len(classifierOutput) = 3
    /\ classifierOutput[1].bucket = "Warranty claims"
    /\ classifierOutput[2].bucket = "Pump recommendations"
    /\ classifierOutput[3].bucket = "Product catalog"
    /\ summary.counts[ClusterTaxonomy.catchAll] = 2

\* a request of invocation c fails in this step and the invocation ends
RequestFails(c) ==
    /\ cycles[c].stage \in {"fast", "clustering", "sentiment"}
    /\ cycles'[c].stage = "failed"

\* C21: in the step in which a request of an invocation fails (a fast KPI,
\* clustering or sentiment request), error becomes a non-null message and
\* loading, clusteringLoading and sentimentLoading become false; and from
\* then on the invocation issues no further request.
C21_FailureEndsCycle ==
    [][ \A c \in 1..Len(cycles) :
            /\ RequestFails(c)
               => /\ error' # Null
                  /\ error'.message # ""
                  /\ ~loading' /\ ~clusteringLoading' /\ ~sentimentLoading'
                  /\ \A e \in Endpoints :
                        cycles'[c].req[e].status = "none" <=> ~Issued(c, e)
            /\ cycles[c].stage = "failed"
               => /\ cycles'[c].stage = "failed"
                  /\ \A e \in Endpoints :
                        cycles'[c].req[e].status = "none" <=> ~Issued(c, e) ]_vars

\* C21 witness: an invocation ended by the failure of its clustering
\* request; its sentiment request was never issued
C21_Witness ==
    \E c \in 1..Len(cycles) :
        /\ cycles[c].stage = "failed"
        /\ StatusOf(c, ClusteringPath) = "rejected"
        /\ StatusOf(c, SentimentPath) = "none"
        /\ error # Null
        /\ ~loading /\ ~clusteringLoading /\ ~sentimentLoading

\* the four filter state variables
FilterState == <<startDate, endDate, productContext, userType>>

\* C22: an invocation of fetchData starts in exactly the steps in which
\* Home mounts or one of startDate, endDate, productContext, userType
\* changes value; the step that starts it sets loading, clusteringLoading
\* and sentimentLoading to true and error to null; and every request of an
\* invocation carries the filter values that were current when it started.
C22_CycleOnFilterChange ==
    /\ [](\A c \in 1..Len(cycles) : \A e \in Endpoints :
            Issued(c, e)
            => cycles[c].req[e].query = buildQueryString(cycles[c].filters))
    /\ [][ /\ (Len(cycles') = Len(cycles) + 1)
              <=> ((~mounted /\ mounted') \/ FilterState' # FilterState)
           /\ Len(cycles') \in {Len(cycles), Len(cycles) + 1}
           /\ (Len(cycles') = Len(cycles) + 1)
              => /\ loading' /\ clusteringLoading' /\ sentimentLoading'
                 /\ error' = Null
                 /\ cycles'[Len(cycles')].filters
                      = [startDate      |-> startDate' \o "T00:00:00",
                         endDate        |-> endDate' \o "T23:59:59",
                         productContext |-> productContext',
                         userType       |-> userType',
                         environment    |-> << >>,
                         userId         |-> << >>]
           /\ \A c \in 1..Len(cycles) : cycles'[c].filters = cycles[c].filters ]_vars

\* C22 witness: the filters were changed while the first invocation was
\* waiting for its clustering result, and that invocation has since issued
\* its sentiment request
C22_Witness ==
    /\ Len(cycles) = 2
    /\ cycles[1].filters # cycles[2].filters
    /\ cycles[2].filters.productContext = productContext
    /\ Issued(1, SentimentPath)
    /\ StatusOf(2, FastKPIs[1]) = "pending"

\* C23: the filters start at 2025-12-01, 2025-12-31, pool, all; every
\* handleReset step ends with the filters at these values, leaves data,
\* clustering and sentiment as they are, touches error and the loading
\* flags only through the invocation of fetchData that a changed filter
\* starts, and changes nothing at all when the filters already have these
\* values (a second reset is a no-op).
C23_ResetRestoresDefaults ==
    /\ FilterState = <<"2025-12-01", "2025-12-31", "pool", "all">>
    /\ [][ handleReset
           => /\ FilterState' = <<"2025-12-01", "2025-12-31", "pool", "all">>
              /\ UNCHANGED <<data, clustering, sentiment>>
              /\ Len(cycles') = Len(cycles)
                 => UNCHANGED <<error, loading, clusteringLoading,
                                sentimentLoading>>
              /\ (Len(cycles') = Len(cycles) + 1) <=> (FilterState' # FilterState)
              /\ FilterState = <<"2025-12-01", "2025-12-31", "pool", "all">>
                 => UNCHANGED vars ]_vars

\* C23 witness: the user type was changed after the first results were
\* shown, and the Reset Filters button has started a third invocation with
\* the default filters while the results are still held
C23_Witness ==
    /\ Len(cycles) = 3
    /\ cycles[2].filters.userType = "internal"
    /\ FilterState = <<"2025-12-01", "2025-12-31", "pool", "all">>
    /\ cycles[3].filters = cycles[1].filters
    /\ data # Null
    /\ loading

\* the values the headers of a request give for one header name
HeaderValues(headers, name) ==
    { headers[i][2] : i \in { j \in DOMAIN headers : headers[j][1] = name } }

\* C24: a request is sent under the token of the most recent setAuthToken
\* call (none before the first call); it carries the header Authorization:
\* "Bearer " followed by t exactly when that token is a non-empty string t,
\* no Authorization header when it is null or empty, and a Content-Type
\* header in every case.
C24_AuthorizationHeader ==
    /\ [](\A k \in 1..Len(calls) :
            LET t == calls[k].token
                h == calls[k].headers
            IN  /\ HeaderValues(h, "Content-Type") # {}
                /\ HeaderValues(h, "Authorization")
                     = IF t # << >> /\ t[1] # ""
                       THEN {"Bearer " \o t[1]}
                       ELSE {})
    /\ [][ /\ Len(calls') = Len(calls) + 1
              => calls'[Len(calls')].token = authToken
           /\ \A k \in 1..Len(calls) : calls'[k].headers = calls[k].headers
           /\ \A token \in TokenInputs :
                 setAuthToken(token) => authToken' = token ]_vars

\* C24 witness: a request was sent under a token, the token was replaced by
\* the empty string, a second request was sent, and the token was cleared
C24_Witness ==
    /\ Len(calls) = 2
    /\ calls[1].token = <<"tokenB">>
    /\ calls[2].token = <<"">>
    /\ HeaderValues(calls[1].headers, "Authorization") = {"Bearer tokenB"}
    /\ authToken = << >>

\* the endpoint whose response each field of the fetchAllFastKPIs record
\* is to hold
FieldEndpoint ==
    [sessionMetrics        |-> "/analytics/session-metrics",
     volumeTrends          |-> "/analytics/volume-trends",
     userEngagement        |-> "/analytics/user-engagement",
     userRetention         |-> "/analytics/user-retention",
     queryCategories       |-> "/analytics/query-categories",
     returningUserBehavior |-> "/analytics/returning-user-behavior",
     userSegmentation      |-> "/analytics/user-segmentation",
     timePatterns          |-> "/analytics/time-patterns",
     conversationLength    |-> "/analytics/conversation-length",
     platformAnalytics     |-> "/analytics/platform-analytics"]

\* C25: from the moment an invocation starts, all ten KPI requests are
\* under way with the query string of the invocation's filters, while
\* neither slow request is; and whatever the order in which the ten
\* responses arrived, the record that fetchAllFastKPIs returned has exactly
\* the ten fields, each holding the response to the request sent to its own
\* endpoint.
C25_FieldsHoldOwnResponses ==
    \A c \in 1..Len(cycles) :
        /\ \A f \in DOMAIN FieldEndpoint :
              /\ Issued(c, FieldEndpoint[f])
              /\ cycles[c].req[FieldEndpoint[f]].path = FieldEndpoint[f]
              /\ cycles[c].req[FieldEndpoint[f]].query
                   = buildQueryString(cycles[c].filters)
        /\ cycles[c].stage = "fast"
           => ~Issued(c, ClusteringPath) /\ ~Issued(c, SentimentPath)
        /\ cycles[c].stage \in {"clustering", "sentiment", "done"}
           => /\ data # Null
              /\ DOMAIN data.fast = DOMAIN FieldEndpoint
              /\ \A f \in DOMAIN FieldEndpoint :
                    /\ StatusOf(c, FieldEndpoint[f]) = "ok"
                    /\ data.fast[f] = [kind  |-> "result",
                                       path  |-> FieldEndpoint[f],
                                       query |-> cycles[c].req[FieldEndpoint[f]].query]

\* C25 witness: the ten responses have arrived and the record is in data,
\* its last field holding the platform analytics response
C25_Witness ==
    /\ Len(cycles) = 1
    /\ cycles[1].stage = "clustering"
    /\ data # Null
    /\ data.fast.platformAnalytics.path = "/analytics/platform-analytics"
    /\ data.fast.sessionMetrics.path = "/analytics/session-metrics"

\* C25 witness of an arrival out of request order: the last request of the
\* batch has been answered while the first is still pending
C25_OutOfOrder ==
    /\ Len(cycles) = 1
    /\ StatusOf(1, "/analytics/platform-analytics") = "ok"
    /\ StatusOf(1, "/analytics/session-metrics") = "pending"

\* the user has an email (a non-empty string) whose domain is none of the
\* five allowed domains
HasOtherDomain(u) ==
    /\ u # NoUser
    /\ u.email # NoEmail
    /\ u.email.tokens # << >>
    /\ ~HasAllowedDomain(u)

\* C26: a render of AuthGuard calls loginWithRedirect exactly when Auth0 is
\* not loading and the user is not authenticated, and calls logout exactly
\* when Auth0 is not loading and the user is authenticated with an email
\* whose domain is not allowed; a render while Auth0 is loading calls
\* neither; and in these three situations the children are not rendered.
C26_LoginAndLogoutCalls ==
    /\ []((isLoading \/ ~isAuthenticated \/ HasOtherDomain(user))
            => rendered # "children")
    /\ [][ /\ loginCalls' = loginCalls
                + (IF ~isLoading' /\ ~isAuthenticated' THEN 1 ELSE 0)
           /\ logoutCalls' = logoutCalls
                + (IF ~isLoading' /\ isAuthenticated' /\ HasOtherDomain(user')
                   THEN 1 ELSE 0)
           /\ isLoading' => UNCHANGED <<loginCalls, logoutCalls>> ]_vars

\* C26 witness: AuthGuard has redirected to the login once, and has now
\* logged out a user whose email is at a domain outside the list
C26_Witness ==
    /\ loginCalls = 1
    /\ logoutCalls = 1
    /\ ~isLoading
    /\ isAuthenticated
    /\ user = [email |-> EmailString(<<"pat", "@", "Gmail.com">>)]
    /\ rendered = "denied"

====
